---- MODULE Spec2Model ----
(***************************************************************************)
(* Text Analyzer service (src/app/main.py).                                *)
(*                                                                         *)
(* Two applications are modelled: the FastAPI application ("strict") with  *)
(* GET /, GET /health and POST /analyze, and the Flask application kept in *)
(* the lower half of the file ("lenient") with POST /analyze and           *)
(* GET /healthz.                                                           *)
(*                                                                         *)
(* A Python str is represented run-length encoded: a sequence of runs      *)
(* [c |-> character, n |-> repetitions], n >= 1, so that "a" * 10000 is    *)
(* the one-run text <<[c |-> "a", n |-> 10000]>>.  len() and split() are   *)
(* computed on that representation.                                        *)
(***************************************************************************)
EXTENDS Integers, Sequences, FiniteSets, TLC

(* ------------------------------ bounds -------------------------------- *)
MaxRuns == 3
NumRequests == 2
MaxClock == 1

(* ------------------------- program constants -------------------------- *)
MaxTextLen == 10000

(* ------------------------------- texts -------------------------------- *)
\* Characters str.isspace() accepts, as far as the inputs below use them.
Whitespace == {" ", "\t", "\n"}

IsSpace(c) == c \in Whitespace

Chars == {"a", " ", "\n"}
RunLens == {1, MaxTextLen - 1, MaxTextLen}
Runs == [c : Chars, n : RunLens]
Texts == UNION {[1..k -> Runs] : k \in 0..MaxRuns}

\* A text written character by character.
Lit(cs) == [i \in 1..Len(cs) |-> [c |-> cs[i], n |-> 1]]
\* "c" * n
Rep(ch, k) == <<[c |-> ch, n |-> k]>>

EmptyText == <<>>
SimpleText == Lit(<<"I", " ", "l", "o", "v", "e", " ", "c", "l", "o", "u", "d", " ",
                    "e", "n", "g", "i", "n", "e", "e", "r", "i", "n", "g", "!">>)
ThreeSpaces == Rep(" ", 3)
MultipleSpaces == Lit(<<"h", "e", "l", "l", "o">>) \o Rep(" ", 4)
                  \o Lit(<<"w", "o", "r", "l", "d">>)
Newlines == Lit(<<"h", "e", "l", "l", "o", "\n", "w", "o", "r", "l", "d">>)
TabText == Lit(<<"a", "\t", "a">>)
AtLimit == Rep("a", MaxTextLen)
OverLimit == Rep("a", MaxTextLen + 1)
NumberAsText == Lit(<<"1", "2", "3">>)
TestTexts == {SimpleText, ThreeSpaces, MultipleSpaces, Newlines, TabText, AtLimit, OverLimit}

\* len(text)
RECURSIVE TextLen(_)
TextLen(t) == IF t = <<>> THEN 0 ELSE t[1].n + TextLen(Tail(t))

\* text.split(): skip whitespace, stop at the end, otherwise take characters
\* up to the next whitespace as one word, and repeat.
RECURSIVE SkipSpace(_, _)
SkipSpace(t, i) == IF i <= Len(t) /\ IsSpace(t[i].c) THEN SkipSpace(t, i + 1) ELSE i

RECURSIVE ScanWord(_, _)
ScanWord(t, i) == IF i <= Len(t) /\ ~IsSpace(t[i].c) THEN ScanWord(t, i + 1) ELSE i

RECURSIVE SplitFrom(_, _)
SplitFrom(t, i) ==
    LET j == SkipSpace(t, i)
    IN  IF j > Len(t) THEN <<>>
        ELSE LET k == ScanWord(t, j)
             IN  <<SubSeq(t, j, k - 1)>> \o SplitFrom(t, k)

\* text.split(" "): every single space separates, empty fragments are kept.
RECURSIVE SplitOnSpaceFrom(_, _, _)
SplitOnSpaceFrom(t, i, cur) ==
    IF i > Len(t) THEN <<cur>>
    ELSE IF t[i].c = " "
         THEN <<cur>> \o [x \in 1..(t[i].n - 1) |-> <<>>] \o SplitOnSpaceFrom(t, i + 1, <<>>)
         ELSE SplitOnSpaceFrom(t, i + 1, Append(cur, t[i]))

SplitOnSpace(t) == SplitOnSpaceFrom(t, 1, <<>>)

Split(t) == SplitFrom(t, 1)


\* len(text.split())
WordCount(t) == Len(Split(t))

\* Characters other than whitespace.
RECURSIVE CharacterCountNoSpace(_)
CharacterCountNoSpace(t) ==
    IF t = <<>> THEN 0
    ELSE (IF IsSpace(t[1].c) THEN 0 ELSE t[1].n) + CharacterCountNoSpace(Tail(t))

\* len(text)
CharacterCount(t) == TextLen(t)

\* len([w for w in text.split() if w])
LenientWordCount(t) == Len(SelectSeq(Split(t), LAMBDA w : w # <<>>))

\* not text.strip()
IsBlank(t) == \A i \in 1..Len(t) : IsSpace(t[i].c)

\* not text
IsEmpty(t) == TextLen(t) = 0

\* len(text) >= 10000
TooLongInclusive(t) == TextLen(t) >= MaxTextLen

\* len(text) > 10001
TooLongOffByOne(t) == TextLen(t) > MaxTextLen + 1

\* len(text) > 10000
TooLong(t) == TextLen(t) > MaxTextLen

(* --------------------------- request bodies --------------------------- *)
\* shape: what the body is (no body, not JSON, or the JSON value it holds);
\* field: for an object, what its "text" member is; text: the string held by
\* a string member.
Body(shape, field, t) == [shape |-> shape, field |-> field, text |-> t]

NoBody == Body("absent", "missing", <<>>)
InvalidJson == Body("invalid", "missing", <<>>)
JsonNull == Body("null", "missing", <<>>)
JsonEmptyArray == Body("empty_array", "missing", <<>>)
JsonArray == Body("array", "missing", <<>>)
JsonNumber == Body("number", "missing", <<>>)
MissingField == Body("object", "missing", <<>>)
NullField == Body("object", "null", <<>>)
NumberField == Body("object", "number", <<>>)
TextBody(t) == Body("object", "string", t)

MalformedBodies == {NoBody, InvalidJson, JsonNull, JsonEmptyArray, JsonArray, JsonNumber,
                    MissingField, NullField, NumberField}
AllBodies == MalformedBodies \cup {TextBody(t) : t \in Texts \cup TestTexts}
FewBodies == {MissingField, TextBody(EmptyText), TextBody(Lit(<<"a", " ", "a">>)),
              TextBody(OverLimit)}

Request(app, route, body) == [app |-> app, route |-> route, body |-> body]

NoRequest == Request("none", "none", NoBody)
AnalyzeRequests(bodies) == {Request(a, "POST /analyze", b) : a \in {"strict", "lenient"}, b \in bodies}
ProbeRequests == {Request("strict", "GET /", NoBody), Request("strict", "GET /health", NoBody),
                  Request("lenient", "GET /healthz", NoBody)}

\* TextRequest with numbers accepted as their decimal string.
TextRequestCoerce(b) ==
    IF b.shape = "object" /\ b.field = "string"
    THEN [ok |-> TRUE, text |-> b.text]
    ELSE IF b.shape = "object" /\ b.field = "number"
         THEN [ok |-> TRUE, text |-> NumberAsText]
         ELSE [ok |-> FALSE, text |-> <<>>]

\* FastAPI reads the body into TextRequest: it passes only a JSON object whose
\* "text" member is a string (the number 123 is not turned into "123").
TextRequest(b) ==
    IF b.shape = "object" /\ b.field = "string"
    THEN [ok |-> TRUE, text |-> b.text]
    ELSE [ok |-> FALSE, text |-> <<>>]

\* data = request.get_json(silent=True) or {}: None and the falsy JSON values
\* become {}, every other value is kept.  text = data.get("text", ""): only a
\* dict has .get.  text.split(), len(text): only a str has .split.
LenientText(b) ==
    IF b.shape \in {"absent", "invalid", "null", "empty_array"}
    THEN [ok |-> TRUE, text |-> <<>>]
    ELSE IF b.shape # "object"
         THEN [ok |-> FALSE, text |-> <<>>]
         ELSE IF b.field = "missing" THEN [ok |-> TRUE, text |-> <<>>]
         ELSE IF b.field = "string" THEN [ok |-> TRUE, text |-> b.text]
         ELSE [ok |-> FALSE, text |-> <<>>]

(* ----------------------------- responses ------------------------------ *)
Response(status, detail, result) == [status |-> status, detail |-> detail, result |-> result]

NoResponse == Response(0, "", <<>>)
ErrorResponse(status, detail) == Response(status, detail, <<>>)

\* datetime.utcnow().isoformat() + "Z"
Timestamp(clock) == [iso |-> clock, suffix |-> "Z"]

TextResponse(t, wc, cc, ts) ==
    [original_text |-> t, word_count |-> wc, character_count |-> cc, analysis_timestamp |-> ts]

LenientResult(t, wc, cc) == [original_text |-> t, word_count |-> wc, character_count |-> cc]

NoException == [type |-> "none", status |-> 0, detail |-> ""]
HTTPException(status, detail) == [type |-> "HTTPException", status |-> status, detail |-> detail]
Exception(msg) == [type |-> "Exception", status |-> 0, detail |-> msg]

Faults == {"MemoryError"}

\* except HTTPException: raise / except Exception: raise HTTPException(500, ...)
LeakyExceptionResponse(e) ==
    IF e.type = "HTTPException"
    THEN ErrorResponse(e.status, e.detail)
    ELSE ErrorResponse(500, e.detail)

ExceptionResponse(e) ==
    IF e.type = "HTTPException"
    THEN ErrorResponse(e.status, e.detail)
    ELSE ErrorResponse(500, "Internal server error")

(* ------------------------------- state -------------------------------- *)
VARIABLES req, pc, text, word_count, character_count, exc, resp, log, now

vars == <<req, pc, text, word_count, character_count, exc, resp, log, now>>

Requests == 1..NumRequests

Init ==
    /\ req = [r \in Requests |-> NoRequest]
    /\ pc = [r \in Requests |-> "idle"]
    /\ text = [r \in Requests |-> <<>>]
    /\ word_count = [r \in Requests |-> 0]
    /\ character_count = [r \in Requests |-> 0]
    /\ exc = [r \in Requests |-> NoException]
    /\ resp = [r \in Requests |-> NoResponse]
    /\ log = [r \in Requests |-> <<>>]
    /\ now = 0

\* request.text as the handler of request r reads it
SharedText(r) == text[1]

RequestText(r) == text[r]

LogLine(level, msg, args) == [level |-> level, msg |-> msg, args |-> args]

\* A client sends a request.
Receive(r, rq) ==
    /\ pc[r] = "idle"
    /\ req' = [req EXCEPT ![r] = rq]
    /\ pc' = [pc EXCEPT ![r] = "received"]
    /\ UNCHANGED <<text, word_count, character_count, exc, resp, log, now>>

\* analyze_text(request: TextRequest): the body is validated before the
\* handler is called; a body that fails gets 422.
ValidateRequest(r) ==
    /\ pc[r] = "received"
    /\ req[r].app = "strict" /\ req[r].route = "POST /analyze"
    /\ LET v == TextRequest(req[r].body)
       IN  IF v.ok
           THEN /\ text' = [text EXCEPT ![r] = v.text]
                /\ pc' = [pc EXCEPT ![r] = "rules"]
                /\ resp' = resp
           ELSE /\ resp' = [resp EXCEPT ![r] = ErrorResponse(422, "validation error")]
                /\ pc' = [pc EXCEPT ![r] = "done"]
                /\ text' = text
    /\ UNCHANGED <<req, word_count, character_count, exc, log, now>>

\* logger.info(length); the two input checks
CheckRules(r) ==
    /\ pc[r] = "rules"
    /\ log' = [log EXCEPT ![r] = Append(@, LogLine("info", "Analyzing text with length",
                                                    <<TextLen(RequestText(r))>>))]
    /\ IF IsEmpty(RequestText(r))
       THEN /\ exc' = [exc EXCEPT ![r] = HTTPException(400, "Text cannot be empty")]
            /\ pc' = [pc EXCEPT ![r] = "raised"]
       ELSE IF TooLong(RequestText(r))
            THEN /\ exc' = [exc EXCEPT ![r] =
                              HTTPException(400, "Text too long (max 10,000 characters)")]
                 /\ pc' = [pc EXCEPT ![r] = "raised"]
            ELSE /\ exc' = exc
                 /\ pc' = [pc EXCEPT ![r] = "analysis"]
    /\ UNCHANGED <<req, text, word_count, character_count, resp, now>>

\* word_count = len(request.text.split()); character_count = len(request.text)
PerformAnalysis(r) ==
    /\ pc[r] = "analysis"
    /\ word_count' = [word_count EXCEPT ![r] = WordCount(RequestText(r))]
    /\ character_count' = [character_count EXCEPT ![r] = CharacterCount(RequestText(r))]
    /\ pc' = [pc EXCEPT ![r] = "response"]
    /\ UNCHANGED <<req, text, exc, resp, log, now>>

\* response = TextResponse(...); logger.info(...); return response
CreateResponse(r) ==
    /\ pc[r] = "response"
    /\ resp' = [resp EXCEPT ![r] =
                  Response(200, "", <<TextResponse(RequestText(r), word_count[r],
                                                   character_count[r], Timestamp(now))>>)]
    /\ log' = [log EXCEPT ![r] = Append(@, LogLine("info", "Analysis complete",
                                                    <<word_count[r], character_count[r]>>))]
    /\ pc' = [pc EXCEPT ![r] = "done"]
    /\ UNCHANGED <<req, text, word_count, character_count, exc, now>>

\* Some statement of the analysis or of the construction of the response
\* raises an exception that is not an HTTPException.
Fault(r, f) ==
    /\ pc[r] \in {"analysis", "response"}
    /\ exc' = [exc EXCEPT ![r] = Exception(f)]
    /\ pc' = [pc EXCEPT ![r] = "raised"]
    /\ UNCHANGED <<req, text, word_count, character_count, resp, log, now>>

\* the two except clauses
HandleException(r) ==
    /\ pc[r] = "raised"
    /\ resp' = [resp EXCEPT ![r] = ExceptionResponse(exc[r])]
    /\ log' = IF exc[r].type = "HTTPException" THEN log
              ELSE [log EXCEPT ![r] = Append(@, LogLine("error",
                        "Unexpected error during text analysis", <<exc[r].detail>>))]
    /\ pc' = [pc EXCEPT ![r] = "done"]
    /\ UNCHANGED <<req, text, word_count, character_count, exc, now>>

\* GET /
health_check(r) ==
    /\ pc[r] = "received"
    /\ req[r].app = "strict" /\ req[r].route = "GET /"
    /\ resp' = [resp EXCEPT ![r] = Response(200, "",
                  <<[status |-> "healthy", service |-> "text-analyzer",
                     timestamp |-> Timestamp(now)]>>)]
    /\ pc' = [pc EXCEPT ![r] = "done"]
    /\ UNCHANGED <<req, text, word_count, character_count, exc, log, now>>

\* GET /health
health(r) ==
    /\ pc[r] = "received"
    /\ req[r].app = "strict" /\ req[r].route = "GET /health"
    /\ resp' = [resp EXCEPT ![r] = Response(200, "", <<[status |-> "ok"]>>)]
    /\ pc' = [pc EXCEPT ![r] = "done"]
    /\ UNCHANGED <<req, text, word_count, character_count, exc, log, now>>

\* POST /analyze of the Flask application; an exception that escapes the view
\* is answered by Flask with 500.
analyze(r) ==
    /\ pc[r] = "received"
    /\ req[r].app = "lenient" /\ req[r].route = "POST /analyze"
    /\ LET v == LenientText(req[r].body)
       IN  IF v.ok
           THEN /\ text' = [text EXCEPT ![r] = v.text]
                /\ word_count' = [word_count EXCEPT ![r] = LenientWordCount(v.text)]
                /\ character_count' = [character_count EXCEPT ![r] = TextLen(v.text)]
                /\ resp' = [resp EXCEPT ![r] = Response(200, "",
                              <<LenientResult(v.text, LenientWordCount(v.text), TextLen(v.text))>>)]
           ELSE /\ resp' = [resp EXCEPT ![r] = ErrorResponse(500, "Internal Server Error")]
                /\ UNCHANGED <<text, word_count, character_count>>
    /\ pc' = [pc EXCEPT ![r] = "done"]
    /\ UNCHANGED <<req, exc, log, now>>

\* GET /healthz of the Flask application
healthz(r) ==
    /\ pc[r] = "received"
    /\ req[r].app = "lenient" /\ req[r].route = "GET /healthz"
    /\ resp' = [resp EXCEPT ![r] = Response(200, "", <<[body |-> "ok"]>>)]
    /\ pc' = [pc EXCEPT ![r] = "done"]
    /\ UNCHANGED <<req, text, word_count, character_count, exc, log, now>>

\* The response is sent; nothing of the request is kept.
Deliver(r) ==
    /\ pc[r] = "done"
    /\ req' = [req EXCEPT ![r] = NoRequest]
    /\ pc' = [pc EXCEPT ![r] = "idle"]
    /\ text' = [text EXCEPT ![r] = <<>>]
    /\ word_count' = [word_count EXCEPT ![r] = 0]
    /\ character_count' = [character_count EXCEPT ![r] = 0]
    /\ exc' = [exc EXCEPT ![r] = NoException]
    /\ resp' = [resp EXCEPT ![r] = NoResponse]
    /\ log' = [log EXCEPT ![r] = <<>>]
    /\ now' = now

\* datetime.utcnow() advances.
Tick ==
    /\ now < MaxClock
    /\ now' = now + 1
    /\ UNCHANGED <<req, pc, text, word_count, character_count, exc, resp, log>>

\* One client: a request is sent when no other is being handled.
SendAlone(r) ==
    /\ \A q \in Requests : pc[q] = "idle"
    /\ \E rq \in AnalyzeRequests(AllBodies) \cup ProbeRequests : Receive(r, rq)

\* Several clients: a request is sent whatever the others are doing.
SendAny(r) == \E rq \in AnalyzeRequests(FewBodies) \cup ProbeRequests : Receive(r, rq)

Handle(r) ==
    \/ ValidateRequest(r)
    \/ CheckRules(r)
    \/ PerformAnalysis(r)
    \/ CreateResponse(r)
    \/ \E f \in Faults : Fault(r, f)
    \/ HandleException(r)
    \/ health_check(r)
    \/ health(r)
    \/ analyze(r)
    \/ healthz(r)
    \/ Deliver(r)

Next == (\E r \in Requests : SendAlone(r) \/ Handle(r)) \/ Tick

Spec == Init /\ [][Next]_vars

NextConc == (\E r \in Requests : SendAny(r) \/ Handle(r)) \/ Tick

SpecConc == Init /\ [][NextConc]_vars

(* ------------------------- vocabulary of the claims ------------------- *)
Done(r) == pc[r] = "done"
StrictAnalyze(r) == req[r].app = "strict" /\ req[r].route = "POST /analyze"
LenientAnalyze(r) == req[r].app = "lenient" /\ req[r].route = "POST /analyze"
HasText(r) == req[r].body.shape = "object" /\ req[r].body.field = "string"
Sent(r) == req[r].body.text
Faulted(r) == exc[r].type = "Exception"
Accepted(t) == 1 <= TextLen(t) /\ TextLen(t) <= MaxTextLen

\* Positions where a maximal run of non-whitespace characters begins.  Inside
\* a run of the encoding every character follows one of its own class, so a
\* word can begin only at the first character of a run.
WordStarts(t) == {i \in 1..Len(t) : ~IsSpace(t[i].c) /\ (i = 1 \/ IsSpace(t[i - 1].c))}
MaximalRuns(t) == Cardinality(WordStarts(t))
AllSpace(t) == \A i \in 1..Len(t) : IsSpace(t[i].c)

C2_Limit ==
    \A r \in Requests :
        (Done(r) /\ StrictAnalyze(r) /\ HasText(r)) =>
            /\ (TextLen(Sent(r)) = MaxTextLen /\ ~Faulted(r)) =>
                   (resp[r].status = 200 /\ Len(resp[r].result) = 1)
            /\ (TextLen(Sent(r)) > MaxTextLen) =>
                   /\ resp[r].status = 400
                   /\ resp[r].detail = "Text too long (max 10,000 characters)"
                   /\ resp[r].result = <<>>

C2_Witness ==
    \E r \in Requests :
        /\ Done(r) /\ StrictAnalyze(r) /\ HasText(r)
        /\ TextLen(Sent(r)) = MaxTextLen + 1
        /\ resp[r].status = 400

\* C3: a strict POST /analyze of the empty string is answered 400 "Text
\* cannot be empty", and no other text of at most 10000 characters is
\* answered 400.
C3_Empty ==
    \A r \in Requests :
        (Done(r) /\ StrictAnalyze(r) /\ HasText(r)) =>
            /\ (Sent(r) = EmptyText) =>
                   (resp[r].status = 400 /\ resp[r].detail = "Text cannot be empty")
            /\ (resp[r].status = 400 /\ TextLen(Sent(r)) <= MaxTextLen) => Sent(r) = EmptyText

C3_Witness ==
    \E r \in Requests :
        /\ Done(r) /\ StrictAnalyze(r) /\ HasText(r)
        /\ Sent(r) = EmptyText
        /\ resp[r].status = 400

\* C4: a strict POST /analyze whose body is not JSON, has no text member or
\* has a text member that is not a string never enters the handler body
\* (nothing is logged, no rule is checked, nothing is computed) and is
\* answered 422.
C4_Validation ==
    \A r \in Requests :
        (StrictAnalyze(r) /\ ~HasText(r)) =>
            /\ pc[r] \in {"received", "done"}
            /\ log[r] = <<>>
            /\ exc[r] = NoException
            /\ Done(r) => (resp[r].status = 422 /\ resp[r].result = <<>>)

C4_Witness ==
    \E r \in Requests :
        /\ Done(r) /\ StrictAnalyze(r)
        /\ req[r].body = NumberField
        /\ resp[r].status = 422

C6_AlwaysOk ==
    \A r \in Requests :
        (Done(r) /\ LenientAnalyze(r)) =>
            /\ resp[r].status = 200
            /\ (req[r].body \in {NoBody, InvalidJson, MissingField}) =>
                   resp[r].result = <<LenientResult(EmptyText, 0, 0)>>

\* C7: a strict POST /analyze during which a fault was raised is answered
\* 500 "Internal server error", never with the text of the fault; a request
\* whose handling raised a 400 is answered that 400 with its own message.
C7_Faults ==
    \A r \in Requests :
        (Done(r) /\ StrictAnalyze(r)) =>
            /\ Faulted(r) =>
                   /\ resp[r].status = 500
                   /\ resp[r].detail = "Internal server error"
                   /\ resp[r].detail # exc[r].detail
                   /\ resp[r].detail \notin Faults
                   /\ resp[r].result = <<>>
            /\ (exc[r].type = "HTTPException") =>
                   /\ exc[r].status = 400
                   /\ resp[r].status = 400
                   /\ resp[r].detail = exc[r].detail

C7_Witness ==
    \E r \in Requests :
        /\ Done(r) /\ StrictAnalyze(r)
        /\ Faulted(r)
        /\ resp[r].status = 500

\* What a request, with the fault raised during its own handling if any, is
\* answered when it is the only request ever sent: status, message and the
\* fields of the result other than the timestamps.
Alone(rq, faulted) ==
    IF rq.route = "GET /" THEN <<200, "", <<"healthy", "text-analyzer">>>>
    ELSE IF rq.route = "GET /health" THEN <<200, "", <<"ok">>>>
    ELSE IF rq.route = "GET /healthz" THEN <<200, "", <<"ok">>>>
    ELSE IF rq.app = "lenient"
         THEN IF rq.body \in {JsonArray, JsonNumber, NullField, NumberField}
              THEN <<500, "Internal Server Error", <<>>>>
              ELSE <<200, "", <<rq.body.text, MaximalRuns(rq.body.text), TextLen(rq.body.text)>>>>
    ELSE IF ~(rq.body.shape = "object" /\ rq.body.field = "string")
         THEN <<422, "validation error", <<>>>>
    ELSE IF rq.body.text = <<>> THEN <<400, "Text cannot be empty", <<>>>>
    ELSE IF TextLen(rq.body.text) > MaxTextLen
         THEN <<400, "Text too long (max 10,000 characters)", <<>>>>
    ELSE IF faulted THEN <<500, "Internal server error", <<>>>>
    ELSE <<200, "", <<rq.body.text, MaximalRuns(rq.body.text), TextLen(rq.body.text)>>>>

\* The same parts of the response request r has got.
Observed(r) ==
    <<resp[r].status, resp[r].detail,
      IF resp[r].result = <<>> THEN <<>>
      ELSE IF req[r].route = "GET /"
           THEN <<resp[r].result[1].status, resp[r].result[1].service>>
      ELSE IF req[r].route = "GET /health" THEN <<resp[r].result[1].status>>
      ELSE IF req[r].route = "GET /healthz" THEN <<resp[r].result[1].body>>
      ELSE <<resp[r].result[1].original_text, resp[r].result[1].word_count,
             resp[r].result[1].character_count>> >>

C8_OwnRequestOnly == \A r \in Requests : Done(r) => Observed(r) = Alone(req[r], Faulted(r))

\* The variables of request r
Slot(r) == <<req[r], pc[r], text[r], word_count[r], character_count[r], exc[r], resp[r], log[r]>>

C8_OwnSlotOnly ==
    \A r \in Requests :
        (Slot(r)' # Slot(r)) => (\A q \in Requests \ {r} : Slot(q)' = Slot(q))

\* C8: with any number of requests handled in any interleaving, the status
\* and the fields other than timestamps of every response are those the
\* request would get alone, and a step that changes the variables of one
\* request leaves those of every other request as they are.
C8_Independent == [](C8_OwnRequestOnly) /\ [][C8_OwnSlotOnly]_vars

C8_Witness ==
    \E r, q \in Requests :
        /\ r # q
        /\ Done(r) /\ StrictAnalyze(r) /\ resp[r].status = 200
        /\ pc[q] \in {"rules", "analysis", "response", "raised", "done"}
        /\ StrictAnalyze(q) /\ req[q] # req[r]

\* C9: a lenient POST /analyze of a text the strict application accepts is
\* answered 200 with the original_text, word_count and character_count the
\* strict application computes for it.
C9_SameCounts ==
    \A r \in Requests :
        (Done(r) /\ LenientAnalyze(r) /\ HasText(r) /\ Accepted(Sent(r))) =>
            /\ resp[r].status = 200
            /\ resp[r].result = <<LenientResult(Sent(r), WordCount(Sent(r)),
                                                CharacterCount(Sent(r)))>>

C9_Witness ==
    \E r \in Requests :
        /\ Done(r) /\ LenientAnalyze(r) /\ HasText(r)
        /\ Sent(r) = MultipleSpaces
        /\ resp[r].result[1].word_count = 2

\* C10: every 200 response of the strict POST /analyze has
\* 1 <= character_count <= 10000 and
\* 0 <= word_count <= (character_count + 1) div 2, hence
\* word_count <= character_count.
C10_Bounds ==
    \A r \in Requests :
        (Done(r) /\ StrictAnalyze(r) /\ resp[r].status = 200) =>
            LET wc == resp[r].result[1].word_count
                cc == resp[r].result[1].character_count
            IN  /\ 1 <= cc /\ cc <= MaxTextLen
                /\ 0 <= wc /\ wc <= (cc + 1) \div 2
                /\ wc <= cc

C10_Witness ==
    \E r \in Requests :
        /\ Done(r) /\ StrictAnalyze(r) /\ resp[r].status = 200
        /\ resp[r].result[1].character_count = 3
        /\ resp[r].result[1].word_count = 2

====
